---- MODULE Spec2Model ----
(***************************************************************************)
(* ClawSync tool assembly and agent dispatch: the tool loader (skills,     *)
(* MCP servers, built-in tools, peer-agent tools), the skill tool handlers *)
(* with their security check and audit log, the MCP proxy tool,            *)
(* createDynamicAgent, chat.send and switchModel.  Strings are sequences   *)
(* of one-character strings.                                               *)
(***************************************************************************)
EXTENDS Integers, Sequences, FiniteSets, TLC

\* ------------------------------------------------------------------------
\* Bounds of the model
\* ------------------------------------------------------------------------
MaxCalls == 2

\* ------------------------------------------------------------------------
\* Characters and tool-name sanitization
\* ------------------------------------------------------------------------
LowerChars ==
  {"a", "b", "c", "d", "e", "f", "g", "h", "i", "j", "k", "l", "m", "n", "o", "p", "q", "r", "s", "t", "u", "v", "w", "x", "y", "z"}
UpperChars ==
  {"A", "B", "C", "D", "E", "F", "G", "H", "I", "J", "K", "L", "M", "N", "O", "P", "Q", "R", "S", "T", "U", "V", "W", "X", "Y", "Z"}
DigitChars ==
  {"0", "1", "2", "3", "4", "5", "6", "7", "8", "9"}

\* the class [a-zA-Z0-9_-] of the sanitizing regular expressions
IsNameChar(c) ==
  c \in LowerChars \cup UpperChars \cup DigitChars \cup {"_", "-"}

NameLimit == 128
PeerNameLimit == 100

Min(a, b) == IF a < b THEN a ELSE b

\* String.prototype.slice(0, n)
Slice(s, n) == SubSeq(s, 1, Min(n, Len(s)))

\* .replace(/[^a-zA-Z0-9_-]/g, '_')
ReplaceInvalid(s) ==
  [i \in 1..Len(s) |-> IF IsNameChar(s[i]) THEN s[i] ELSE "_"]

\* .replace(/_+/g, '_'): every run of underscores becomes one underscore;
\* computed on the two halves of s, whose results are joined without
\* doubling an underscore at the seam
RECURSIVE CollapseUnderscores(_)
CollapseUnderscores(s) ==
  IF Len(s) <= 1 THEN s
  ELSE LET half == Len(s) \div 2
           left == CollapseUnderscores(SubSeq(s, 1, half))
           right == CollapseUnderscores(SubSeq(s, half + 1, Len(s)))
       IN IF left[Len(left)] = "_" /\ right[1] = "_"
            THEN left \o Tail(right)
            ELSE left \o right

\* a faulty sanitization without the slice
SanitizeNameUncut(s) == CollapseUnderscores(ReplaceInvalid(s))

\* a faulty sanitization without the second replace
SanitizeNameNoCollapse(s) == Slice(ReplaceInvalid(s), NameLimit)

\* safeName of a skill or of an MCP tool
SanitizeName(s) == Slice(CollapseUnderscores(ReplaceInvalid(s)), NameLimit)

AskAgentPrefix == <<"a", "s", "k", "_", "a", "g", "e", "n", "t", "_">>

\* safeName of a peer-agent tool
PeerToolName(s) == AskAgentPrefix \o Slice(ReplaceInvalid(s), PeerNameLimit)

\* ------------------------------------------------------------------------
\* Built-in tool names, in the order loadTools registers them
\* ------------------------------------------------------------------------

NameListAvailableModels ==
  <<"l", "i", "s", "t", "_", "a", "v", "a", "i", "l", "a", "b", "l", "e", "_", "m", "o", "d", "e", "l", "s">>

NameSwitchModel ==
  <<"s", "w", "i", "t", "c", "h", "_", "m", "o", "d", "e", "l">>

NameGetCurrentModel ==
  <<"g", "e", "t", "_", "c", "u", "r", "r", "e", "n", "t", "_", "m", "o", "d", "e", "l">>

NameGenerateImage ==
  <<"g", "e", "n", "e", "r", "a", "t", "e", "_", "i", "m", "a", "g", "e">>

NameGeneratePdf ==
  <<"g", "e", "n", "e", "r", "a", "t", "e", "_", "p", "d", "f">>

NameSendTelegramMessage ==
  <<"s", "e", "n", "d", "_", "t", "e", "l", "e", "g", "r", "a", "m", "_", "m", "e", "s", "s", "a", "g", "e">>

NameSendEmail ==
  <<"s", "e", "n", "d", "_", "e", "m", "a", "i", "l">>

NamePostTweet ==
  <<"p", "o", "s", "t", "_", "t", "w", "e", "e", "t">>

NameScheduleTask ==
  <<"s", "c", "h", "e", "d", "u", "l", "e", "_", "t", "a", "s", "k">>

NameListTools ==
  <<"l", "i", "s", "t", "_", "t", "o", "o", "l", "s">>

NameListScheduledTasks ==
  <<"l", "i", "s", "t", "_", "s", "c", "h", "e", "d", "u", "l", "e", "d", "_", "t", "a", "s", "k", "s">>

NameDeleteScheduledTask ==
  <<"d", "e", "l", "e", "t", "e", "_", "s", "c", "h", "e", "d", "u", "l", "e", "d", "_", "t", "a", "s", "k">>

NameToggleScheduledTask ==
  <<"t", "o", "g", "g", "l", "e", "_", "s", "c", "h", "e", "d", "u", "l", "e", "d", "_", "t", "a", "s", "k">>

NameWebFetch ==
  <<"w", "e", "b", "_", "f", "e", "t", "c", "h">>

NameGetCurrentDate ==
  <<"g", "e", "t", "_", "c", "u", "r", "r", "e", "n", "t", "_", "d", "a", "t", "e">>

BuiltinNames ==
  <<NameListAvailableModels,
    NameSwitchModel,
    NameGetCurrentModel,
    NameGenerateImage,
    NameGeneratePdf,
    NameSendTelegramMessage,
    NameSendEmail,
    NamePostTweet,
    NameScheduleTask,
    NameListTools,
    NameListScheduledTasks,
    NameDeleteScheduledTask,
    NameToggleScheduledTask,
    NameWebFetch,
    NameGetCurrentDate>>

BuiltinNameSet == {BuiltinNames[i] : i \in 1..Len(BuiltinNames)}

\* ------------------------------------------------------------------------
\* Identifiers.  0 stands for an absent (undefined) agentId.
\* ------------------------------------------------------------------------
SkillIds == {1, 2}
ServerIds == {1, 2}
AgentIds == {1, 2}
NoAgent == 0

SkillTypes == {"template", "webhook", "code"}

\* ------------------------------------------------------------------------
\* State
\* ------------------------------------------------------------------------
VARIABLES
  skillRegistry,      \* table skillRegistry: id -> document
  mcpServers,         \* table mcpServers: id -> document and what the server answers
  agents,             \* table agents: id -> document (exists = FALSE: no record)
  agentSkillIds,      \* assignments: agent id -> set of skill ids
  agentMcpIds,        \* assignments: agent id -> set of MCP server ids
  agent,              \* the Agent built by createDynamicAgent for the turn
  pc,                 \* position of the running tool handler
  cur,                \* the tool whose handler is running
  securityResult,     \* result of checkSecurity in the running handler
  events,             \* what the running handler has done so far, in order
  skillInvocationLog, \* table skillInvocationLog (the audit log)
  logMark,            \* length of the audit log when the handler started
  execResult,         \* how the skill's executor ended: "none", "ok", "throw"
  errorMessage,       \* errorMessage of the handler's catch block
  ret,                \* what the handler returned (or that it threw)
  urlIndex,           \* MCP proxy handler: index in urlsToTry
  lastError,          \* MCP proxy handler: lastError
  nCalls,             \* number of tool calls started
  loaded,             \* the last loadTools call: its argument and its result
  requested,          \* the agentId argument of the last createDynamicAgent call
  agentConfig,        \* table agentConfig: the legacy configuration document
  activityLog,        \* table activityLog: the actionType of each entry
  chatLog,            \* what chat.send and switchModel returned, in order
  fetchLog,           \* what the web_fetch handler returned, in order
  fileUploads,        \* table fileUploads: upload token -> document
  now,                \* Date.now(), in milliseconds
  issued,             \* number of upload URLs the storage has generated
  markedWith,         \* tokens markComplete was called for with a storageId
  uploadRet           \* the last fileUploads operation and what it returned

registryVars == <<skillRegistry, mcpServers, agents, agentSkillIds, agentMcpIds>>
dbVars == <<skillRegistry, mcpServers, agents, agentSkillIds, agentMcpIds,
            agentConfig, activityLog>>
fileVars == <<fileUploads, now, issued, markedWith, uploadRet>>
buildVars == <<agent, requested, loaded>>
callVars == <<pc, cur, securityResult, events, skillInvocationLog, logMark,
              execResult, errorMessage, ret, urlIndex, lastError, nCalls>>
vars == <<skillRegistry, mcpServers, agents, agentSkillIds, agentMcpIds,
          agent, requested, loaded, pc, cur, securityResult, events,
          skillInvocationLog, logMark, execResult, errorMessage, ret,
          urlIndex, lastError, nCalls, agentConfig, activityLog, chatLog,
          fetchLog, fileUploads, now, issued, markedWith, uploadRet>>

\* ------------------------------------------------------------------------
\* Tool sets: a function from tool name to tool
\* ------------------------------------------------------------------------
NoTool == [kind |-> "none", id |-> 0, name |-> <<>>]
SkillTool(sid) == [kind |-> "skill", id |-> sid, name |-> <<>>]
McpTool(srv, toolName) == [kind |-> "mcp", id |-> srv, name |-> toolName]
BuiltinTool(key) == [kind |-> "builtin", id |-> 0, name |-> key]
AgentTool(peer) == [kind |-> "agent", id |-> peer, name |-> <<>>]

EmptyToolSet == [k \in {} |-> NoTool]

\* a faulty assignment that keeps an entry already present
PutKeepingFirst(ts, k, v) ==
  IF k \in DOMAIN ts THEN ts
  ELSE [x \in DOMAIN ts \cup {k} |-> IF x = k THEN v ELSE ts[x]]

\* tools[k] = v
Put(ts, k, v) == [x \in DOMAIN ts \cup {k} |-> IF x = k THEN v ELSE ts[x]]

\* ------------------------------------------------------------------------
\* Queries of the database
\* ------------------------------------------------------------------------
RECURSIVE AscendingSeq(_)
\* the ids of S in ascending (creation) order
AscendingSeq(S) ==
  IF S = {} THEN <<>>
  ELSE LET m == CHOOSE x \in S : \A y \in S : x <= y
       IN <<m>> \o AscendingSeq(S \ {m})

\* internal.skillRegistry.getActiveApproved
GetActiveApproved ==
  AscendingSeq({i \in DOMAIN skillRegistry :
                  skillRegistry[i].status = "active" /\ skillRegistry[i].approved})

\* api.mcpServers.getEnabledApproved
GetEnabledApproved ==
  AscendingSeq({i \in DOMAIN mcpServers :
                  mcpServers[i].enabled /\ mcpServers[i].approved})

\* internal.agentAssignments.getAgentSkillIds / getAgentMcpIds
GetAgentSkillIds(agentId) ==
  IF agentId \in DOMAIN agentSkillIds THEN agentSkillIds[agentId] ELSE {}
GetAgentMcpIds(agentId) ==
  IF agentId \in DOMAIN agentMcpIds THEN agentMcpIds[agentId] ELSE {}

\* internal.agents.getInternal: the record, or null (FALSE)
AgentExists(agentId) == agentId \in DOMAIN agents /\ agents[agentId].exists

\* internal.agents.getDefault: the id of the default agent, or NoAgent
GetDefault ==
  LET D == {a \in DOMAIN agents : agents[a].exists /\ agents[a].isDefault}
  IN IF D = {} THEN NoAgent ELSE CHOOSE a \in D : \A b \in D : a <= b

\* api.agents.list
AgentList == AscendingSeq({i \in DOMAIN agents : agents[i].exists})

\* ------------------------------------------------------------------------
\* loadTools(ctx, agentId)
\* The loader state L carries the tool set under construction, the names
\* for which a conflict was logged and the discovery requests sent.
\* ------------------------------------------------------------------------
EmptyLoad == [tools |-> EmptyToolSet, conflicts |-> <<>>, requests |-> <<>>]

\* createToolFromSkill: a tool for the three skill types, null otherwise
CreatesTool(skill) == skill.skillType \in SkillTypes

\* a faulty scoping test that lets every entry through
IsAllowedUnscoped(agentId, assigned, id) == TRUE

\* the scoping test of both loops: allowed is null without an agentId
IsAllowed(agentId, assigned, id) == agentId = NoAgent \/ id \in assigned

RECURSIVE LoadSkills(_, _, _)
LoadSkills(L, ids, agentId) ==
  IF ids = <<>> THEN L
  ELSE LET sid == Head(ids)
           skill == skillRegistry[sid]
       IN IF ~IsAllowed(agentId, GetAgentSkillIds(agentId), sid)
            THEN LoadSkills(L, Tail(ids), agentId)
          ELSE IF ~CreatesTool(skill)
            THEN LoadSkills(L, Tail(ids), agentId)
          ELSE LoadSkills(
                 [L EXCEPT !.tools = Put(@, SanitizeName(skill.name), SkillTool(sid))],
                 Tail(ids), agentId)

\* a faulty exchange that also falls back to GET after a non-OK status
DiscoveryResponseGetOnStatus(srv) ==
  IF srv.post = "ok"
    THEN [threw |-> FALSE, ok |-> TRUE, methods |-> <<"POST">>]
  ELSE IF srv.get # "throw"
    THEN [threw |-> FALSE, ok |-> srv.get = "ok", methods |-> <<"POST", "GET">>]
  ELSE [threw |-> TRUE, ok |-> FALSE, methods |-> <<"POST", "GET">>]

\* the tools/list exchange: POST first, GET when the POST threw
DiscoveryResponse(srv) ==
  IF srv.post # "throw"
    THEN [threw |-> FALSE, ok |-> srv.post = "ok", methods |-> <<"POST">>]
  ELSE IF srv.get # "throw"
    THEN [threw |-> FALSE, ok |-> srv.get = "ok", methods |-> <<"POST", "GET">>]
  ELSE [threw |-> TRUE, ok |-> FALSE, methods |-> <<"POST", "GET">>]

\* what is sent: the POST carries the JSON-RPC 2.0 tools/list request, the
\* GET carries no body
DiscoveryRequest(sid, method) ==
  [server |-> sid, method |-> method,
   rpc |-> IF method = "POST" THEN "tools/list" ELSE "none"]

\* a faulty parser that takes JSON bodies only
DiscoveryToolsJsonOnly(srv) ==
  IF srv.body = "json" /\ srv.toolsAt \in {"result", "top"}
    THEN [parsed |-> TRUE, tools |-> srv.tools]
    ELSE [parsed |-> srv.body = "json", tools |-> <<>>]

\* parsing of the response body, then data.result?.tools || data.tools || []
DiscoveryTools(srv) ==
  LET listed == IF srv.toolsAt \in {"result", "top"} THEN srv.tools ELSE <<>>
  IN CASE srv.body = "json" -> [parsed |-> TRUE, tools |-> listed]
       [] srv.body = "sse" -> [parsed |-> TRUE, tools |-> listed]
       [] srv.body = "sse_invalid" -> [parsed |-> TRUE, tools |-> <<>>]
       [] OTHER -> [parsed |-> FALSE, tools |-> <<>>]

\* a faulty registration that never logs a conflict
LogConflictNever(L, safeName) == L.conflicts

\* if (tools[safeName]) console.log(... conflicts with existing skill ...)
LogConflict(L, safeName) ==
  IF safeName \in DOMAIN L.tools
    THEN Append(L.conflicts, safeName)
    ELSE L.conflicts

RECURSIVE RegisterMcpTools(_, _, _)
\* the loop over mcpTools; toolName.replace throws on an entry without a
\* name, which ends the registration of this server's tools
RegisterMcpTools(L, sid, mcpTools) ==
  IF mcpTools = <<>> THEN L
  ELSE LET toolName == Head(mcpTools).name
           safeName == SanitizeName(toolName)
           logged == LogConflict(L, safeName)
       IN IF ~Head(mcpTools).named THEN L
          ELSE RegisterMcpTools(
                 [L EXCEPT !.conflicts = logged,
                           !.tools = Put(@, safeName, McpTool(sid, toolName))],
                 sid, Tail(mcpTools))

\* one iteration of the loop over the MCP servers
LoadServer(L, sid, agentId) ==
  LET srv == mcpServers[sid]
      resp == DiscoveryResponse(srv)
      sent == [L EXCEPT !.requests =
                 @ \o [i \in 1..Len(resp.methods) |->
                         DiscoveryRequest(sid, resp.methods[i])]]
      found == DiscoveryTools(srv)
  IN IF ~srv.hasUrl THEN L
     ELSE IF ~IsAllowed(agentId, GetAgentMcpIds(agentId), sid) THEN L
     ELSE IF resp.threw \/ ~resp.ok THEN sent
     ELSE IF ~found.parsed THEN sent
     ELSE RegisterMcpTools(sent, sid, found.tools)

RECURSIVE LoadServersUntilFailure(_, _, _)
\* a faulty loop that ends with the first server whose discovery fails
LoadServersUntilFailure(L, ids, agentId) ==
  IF ids = <<>> THEN L
  ELSE LET srv == mcpServers[Head(ids)]
           resp == DiscoveryResponse(srv)
       IN IF /\ srv.hasUrl
             /\ IsAllowed(agentId, GetAgentMcpIds(agentId), Head(ids))
             /\ (resp.threw \/ ~resp.ok \/ ~DiscoveryTools(srv).parsed)
            THEN LoadServer(L, Head(ids), agentId)
            ELSE LoadServersUntilFailure(LoadServer(L, Head(ids), agentId),
                                         Tail(ids), agentId)

RECURSIVE LoadServers(_, _, _)
\* the loop over the MCP servers: the try block of an iteration catches
\* whatever the iteration throws
LoadServers(L, ids, agentId) ==
  IF ids = <<>> THEN L
  ELSE LoadServers(LoadServer(L, Head(ids), agentId), Tail(ids), agentId)

LoadBuiltinsKeepExisting(L) ==
  [L EXCEPT !.tools =
     [k \in DOMAIN @ \cup BuiltinNameSet |->
        IF k \in DOMAIN @ THEN @[k] ELSE BuiltinTool(k)]]

\* tools['list_available_models'] = ... through tools['get_current_date'] = ...
\* (fifteen assignments to distinct constant keys)
LoadBuiltins(L) ==
  [L EXCEPT !.tools =
     [k \in DOMAIN @ \cup BuiltinNameSet |->
        IF k \in BuiltinNameSet THEN BuiltinTool(k) ELSE @[k]]]

RECURSIVE LoadPeers(_, _, _)
\* the agent-to-agent tools, only with an agentId
LoadPeers(L, ids, agentId) ==
  IF ids = <<>> THEN L
  ELSE LET peer == Head(ids)
       IN IF peer = agentId \/ agents[peer].status = "error"
            THEN LoadPeers(L, Tail(ids), agentId)
          ELSE LoadPeers(
                 [L EXCEPT !.tools =
                    Put(@, PeerToolName(agents[peer].name), AgentTool(peer))],
                 Tail(ids), agentId)

LoadState(agentId) ==
  LET withSkills == LoadSkills(EmptyLoad, GetActiveApproved, agentId)
      withMcp == LoadServers(withSkills, GetEnabledApproved, agentId)
      withBuiltins == LoadBuiltins(withMcp)
  IN IF agentId # NoAgent
       THEN LoadPeers(withBuiltins, AgentList, agentId)
       ELSE withBuiltins

LoadTools(agentId) == LoadState(agentId).tools

\* ------------------------------------------------------------------------
\* createDynamicAgent(ctx, agentId) and buildAgentFromConfig
\* ------------------------------------------------------------------------
\* the providers that getAvailableProviders() lists
AvailableProviders == {"openrouter", "anthropic", "openai", "xai"}

NoModel == [provider |-> "none", model |-> "none"]

\* resolveModelFromConfig: the configured model, or the fallback when the
\* configured provider is not available
ResolveModelFromConfig(doc) ==
  IF doc.modelProvider \in AvailableProviders
    THEN [provider |-> doc.modelProvider, model |-> doc.model]
    ELSE [provider |-> doc.fallbackProvider, model |-> doc.fallbackModel]

\* resolveModel(ctx): the same resolution on the agentConfig document
ResolveModel == ResolveModelFromConfig(agentConfig)

BuildAgentFromConfig(agentId) ==
  [source |-> "agents", id |-> agentId, tools |-> LoadTools(agentId),
   model |-> ResolveModelFromConfig(agents[agentId])]

\* a faulty resolution that looks for the default agent first
CreateDynamicAgentDefaultFirst(agentId) ==
  IF GetDefault # NoAgent
    THEN BuildAgentFromConfig(GetDefault)
  ELSE IF agentId # NoAgent /\ AgentExists(agentId)
    THEN BuildAgentFromConfig(agentId)
  ELSE [source |-> "legacy", id |-> NoAgent, tools |-> LoadTools(NoAgent),
        model |-> ResolveModel]

CreateDynamicAgentResult(agentId) ==
  IF agentId # NoAgent /\ AgentExists(agentId)
    THEN BuildAgentFromConfig(agentId)
  ELSE IF GetDefault # NoAgent
    THEN BuildAgentFromConfig(GetDefault)
  ELSE [source |-> "legacy", id |-> NoAgent, tools |-> LoadTools(NoAgent),
        model |-> ResolveModel]

NoAgentBuilt ==
  [source |-> "none", id |-> NoAgent, tools |-> EmptyToolSet, model |-> NoModel]

NotLoaded == [called |-> FALSE, agentId |-> NoAgent, tools |-> EmptyToolSet,
              conflicts |-> <<>>, requests |-> <<>>]

\* ------------------------------------------------------------------------
\* Skill tool handlers (template, webhook, code) and logInvocation
\* ------------------------------------------------------------------------
\* what checkSecurity can answer
SecurityResults ==
  {[allowed |-> TRUE, code |-> "allowed", reason |-> "ok"],
   [allowed |-> FALSE, code |-> "rate_limited", reason |-> "Rate limit exceeded"],
   [allowed |-> FALSE, code |-> "domain_blocked", reason |-> "Domain not allowed"]}

NoSecurityResult == [allowed |-> FALSE, code |-> "none", reason |-> "none"]
NoReturn == [kind |-> "none", detail |-> "none"]
Threw == [kind |-> "throw", detail |-> "exception"]

\* stored config of a skill: absent, JSON without url, JSON with a valid
\* url, text that is not JSON, JSON whose url cannot be parsed
Configs == {"absent", "nourl", "valid", "badjson", "badurl"}

\* JSON.parse(skill.config) or new URL(config.url) throws
ConfigThrows(config) == config \in {"badjson", "badurl"}

\* where a skill handler starts: the webhook handler parses the config first
SkillEntry(skill) == IF skill.skillType = "webhook" THEN "parse" ELSE "check"

\* a faulty handler that does not return on a denial
AfterSecurityIgnoringDenial(r) == "exec"

\* if (!securityResult.allowed) { log; return } else try { execute ... }
AfterSecurity(r) == IF r.allowed THEN "exec" ELSE "logDenied"

\* how the executor can end; the code skill only builds a string
ExecOutcomes(skill) ==
  IF skill.skillType = "code" THEN {"ok"} ELSE {"ok", "throw"}

LogSites == {"logDenied", "logResult", "logError"}

\* a faulty record that reports every call without exception as a success
LogRecordSuccessUnlessError(site, skillId, skill, r, msg) ==
  [skill |-> skillId,
   skillType |-> skill.skillType,
   hasOutput |-> site = "logResult",
   success |-> site # "logError",
   errorMessage |-> IF site = "logError" THEN msg ELSE "undefined",
   securityCheckResult |-> r.code]

\* the record logInvocation writes at each of its three call sites
LogRecord(site, skillId, skill, r, msg) ==
  [skill |-> skillId,
   skillType |-> skill.skillType,
   hasOutput |-> site = "logResult",
   success |-> site = "logResult",
   errorMessage |-> IF site = "logError" THEN msg ELSE "undefined",
   securityCheckResult |-> r.code]

\* a faulty handler whose catch block also runs after a committed write
AfterLogAlwaysCatch(site, wrote) ==
  IF site = "logResult" THEN "logError" ELSE "done"

\* control after logInvocation: a rejected write inside try enters catch
AfterLog(site, wrote) ==
  IF site = "logResult" /\ ~wrote THEN "logError" ELSE "done"

\* what the handler returns after logInvocation at each site
ReturnAfterLog(site, wrote, r, msg) ==
  CASE site = "logResult" /\ wrote -> [kind |-> "result", detail |-> "result"]
    [] site = "logResult" /\ ~wrote -> NoReturn
    [] site = "logDenied" /\ wrote -> [kind |-> "error", detail |-> r.reason]
    [] site = "logError" /\ wrote -> [kind |-> "error", detail |-> msg]
    [] OTHER -> Threw

\* ------------------------------------------------------------------------
\* MCP proxy tool handler (createMcpTool)
\* ------------------------------------------------------------------------
ToolsCallSuffix == <<"/", "t", "o", "o", "l", "s", "/", "c", "a", "l", "l">>

\* serverUrl.replace(/\/?$/, '/tools/call'): one trailing slash, if any,
\* gives way to the suffix
WithToolsCall(serverUrl) ==
  IF serverUrl # <<>> /\ serverUrl[Len(serverUrl)] = "/"
    THEN SubSeq(serverUrl, 1, Len(serverUrl) - 1) \o ToolsCallSuffix
    ELSE serverUrl \o ToolsCallSuffix

\* server URLs: plain, with one or two trailing slashes, ending in the suffix
ServerUrls ==
  {<<"u">>, <<"u", "/">>, <<"u", "/", "/">>, <<"u">> \o ToolsCallSuffix,
   <<"u">> \o ToolsCallSuffix \o <<"/">>}

UrlsToTryCallFirst == <<"tools/call", "bare">>

\* serverUrl, then serverUrl with the /tools/call suffix
UrlsToTry == <<"bare", "tools/call">>

\* what one POST to an endpoint can yield: the fetch throws, a non-OK
\* status, a JSON body, an SSE body with a JSON data line, an SSE body
\* whose data line is not JSON, any other body
McpOutcomes == {"throw", "status", "json", "sse", "sse_invalid", "other"}

McpParsed(outcome) == outcome \in {"json", "sse"}

McpError(outcome) ==
  CASE outcome = "throw" -> "fetch failed"
    [] outcome = "status" -> "HTTP status"
    [] outcome = "sse_invalid" -> "Invalid SSE format"
    [] OTHER -> "Non-JSON response"

\* the built-in tools whose handlers are defined in the tool loader, in
\* tools/listTools, in tools/webFetch and in modelSwitching
BuiltinInSource ==
  {NameListAvailableModels, NameSwitchModel, NameGetCurrentModel,
   NameGenerateImage, NameListTools, NameWebFetch, NameGetCurrentDate}

NameWebSearchExa ==
  <<"w", "e", "b", "_", "s", "e", "a", "r", "c", "h", "_", "e", "x", "a">>
NameCompanyResearchExa ==
  <<"c", "o", "m", "p", "a", "n", "y", "_", "r", "e", "s", "e", "a", "r", "c", "h", "_", "e", "x", "a">>
NameGetCodeContextExa ==
  <<"g", "e", "t", "_", "c", "o", "d", "e", "_", "c", "o", "n", "t", "e", "x", "t", "_", "e", "x", "a">>

\* the names in the object that the handler of list_tools returns
ListToolsReport ==
  {NameSendEmail, NamePostTweet, NameSendTelegramMessage, NameGeneratePdf,
   NameGenerateImage, NameWebFetch, NameWebSearchExa, NameCompanyResearchExa,
   NameGetCodeContextExa, NameListAvailableModels, NameSwitchModel,
   NameGetCurrentModel, NameScheduleTask, NameGetCurrentDate}

\* what the handler of a built-in tool can return
BuiltinReturns(key) ==
  IF key = NameListTools
    THEN {[kind |-> "result", detail |-> "tools", tools |-> ListToolsReport]}
    ELSE {[kind |-> k, detail |-> k] : k \in {"result", "error"}}

\* the first step of the handler of a tool
HandlerEntry(tool) ==
  CASE tool.kind = "skill" -> SkillEntry(skillRegistry[tool.id])
    [] tool.kind = "mcp" -> "mcp"
    [] tool.kind = "agent" -> "agent"
    [] OTHER -> "builtin"

\* ------------------------------------------------------------------------
\* Actions
\* ------------------------------------------------------------------------
Idle == pc = "idle"

\* loadTools(ctx, agentId)
LoadToolsCall(agentId) ==
  /\ Idle
  /\ loaded' = [called |-> TRUE, agentId |-> agentId] @@ LoadState(agentId)
  /\ UNCHANGED <<dbVars, fileVars, fetchLog, chatLog, agent, requested, callVars>>

\* createDynamicAgent(ctx, agentId)
CreateDynamicAgent(agentId) ==
  /\ Idle
  /\ agent' = CreateDynamicAgentResult(agentId)
  /\ requested' = agentId
  /\ UNCHANGED <<dbVars, fileVars, fetchLog, chatLog, loaded, callVars>>

\* the model calls the tool registered under key
Invoke(key) ==
  /\ Idle
  /\ loaded.called
  /\ nCalls < MaxCalls
  /\ key \in DOMAIN loaded.tools
  /\ loaded.tools[key].kind = "builtin" => key \in BuiltinInSource
  /\ cur' = loaded.tools[key]
  /\ pc' = HandlerEntry(loaded.tools[key])
  /\ nCalls' = nCalls + 1
  /\ logMark' = Len(skillInvocationLog)
  /\ UNCHANGED <<dbVars, fileVars, fetchLog, chatLog, buildVars, securityResult, events, skillInvocationLog,
                 execResult, errorMessage, ret, urlIndex, lastError>>

\* webhook handler: JSON.parse(skill.config), new URL(config.url).hostname
ParseConfig ==
  /\ pc = "parse"
  /\ events' = Append(events, "parseConfig")
  /\ IF ConfigThrows(skillRegistry[cur.id].config)
       THEN pc' = "done" /\ ret' = Threw
       ELSE pc' = "check" /\ ret' = ret
  /\ UNCHANGED <<dbVars, fileVars, fetchLog, chatLog, buildVars, cur, securityResult, skillInvocationLog,
                 logMark, execResult, errorMessage, urlIndex, lastError, nCalls>>

\* const securityResult = await checkSecurity(ctx, skill, input)
CheckSecurity ==
  /\ pc = "check"
  /\ \E r \in SecurityResults :
       /\ securityResult' = r
       /\ pc' = AfterSecurity(r)
  /\ events' = Append(events, "checkSecurity")
  /\ UNCHANGED <<dbVars, fileVars, fetchLog, chatLog, buildVars, cur, skillInvocationLog, logMark,
                 execResult, errorMessage, ret, urlIndex, lastError, nCalls>>

\* the executor: ctx.runAction(...execute), ...webhookCaller, or the string
Execute ==
  /\ pc = "exec"
  /\ \E outcome \in ExecOutcomes(skillRegistry[cur.id]) :
       /\ execResult' = outcome
       /\ pc' = IF outcome = "ok" THEN "logResult" ELSE "logError"
       /\ errorMessage' = IF outcome = "ok" THEN errorMessage ELSE "executor failed"
  /\ events' = Append(events, "execute")
  /\ UNCHANGED <<dbVars, fileVars, fetchLog, chatLog, buildVars, cur, securityResult, skillInvocationLog,
                 logMark, ret, urlIndex, lastError, nCalls>>

\* await logInvocation(...): the mutation commits a record or rejects
LogInvocation ==
  /\ pc \in LogSites
  /\ \E wrote \in BOOLEAN :
       /\ skillInvocationLog' =
            IF wrote
              THEN Append(skillInvocationLog,
                          LogRecord(pc, cur.id, skillRegistry[cur.id],
                                    securityResult, errorMessage))
              ELSE skillInvocationLog
       /\ events' = Append(events, IF wrote THEN "logInvocation"
                                            ELSE "logInvocation rejected")
       /\ pc' = AfterLog(pc, wrote)
       /\ ret' = ReturnAfterLog(pc, wrote, securityResult, errorMessage)
       /\ errorMessage' = IF pc = "logResult" /\ ~wrote
                            THEN "audit write failed" ELSE errorMessage
  /\ UNCHANGED <<dbVars, fileVars, fetchLog, chatLog, buildVars, cur, securityResult, logMark, execResult,
                 urlIndex, lastError, nCalls>>

\* a faulty bookkeeping that keeps the error of the first failed attempt
RecordFirstError(last, outcome) ==
  IF last = "null" THEN McpError(outcome) ELSE last

\* lastError = new Error(...) at each failed attempt
RecordError(last, outcome) == McpError(outcome)

\* one iteration of the loop over urlsToTry in the MCP proxy handler, and
\* after the last one throw lastError, caught as { error: errorMsg };
\* events gets the endpoint and what came of the attempt
McpAttempt ==
  /\ pc = "mcp"
  /\ \E outcome \in McpOutcomes :
       /\ events' = events \o <<UrlsToTry[urlIndex],
                                 IF McpParsed(outcome) THEN "answered"
                                 ELSE McpError(outcome)>>
       /\ IF McpParsed(outcome)
            THEN /\ ret' = [kind |-> "result", detail |-> "result"]
                 /\ pc' = "done"
                 /\ UNCHANGED <<urlIndex, lastError>>
            ELSE /\ lastError' = RecordError(lastError, outcome)
                 /\ IF urlIndex < Len(UrlsToTry)
                      THEN /\ urlIndex' = urlIndex + 1
                           /\ UNCHANGED <<pc, ret>>
                      ELSE /\ ret' = [kind |-> "error", detail |-> lastError']
                           /\ pc' = "done"
                           /\ UNCHANGED urlIndex
  /\ UNCHANGED <<dbVars, fileVars, fetchLog, chatLog, buildVars, cur, securityResult, skillInvocationLog,
                 logMark, execResult, errorMessage, nCalls>>

\* the handler of a built-in tool
BuiltinRun ==
  /\ pc = "builtin"
  /\ events' = Append(events, "execute")
  /\ \E r \in BuiltinReturns(cur.name) : ret' = r
  /\ pc' = "done"
  /\ UNCHANGED <<dbVars, fileVars, fetchLog, chatLog, buildVars, cur, securityResult, skillInvocationLog,
                 logMark, execResult, errorMessage, urlIndex, lastError, nCalls>>

\* the handler of an agent-to-agent tool (createAgentTool)
AgentToolRun ==
  /\ pc = "agent"
  /\ events' = Append(events, "execute")
  /\ \E kind \in {"result", "error"} : ret' = [kind |-> kind, detail |-> kind]
  /\ pc' = "done"
  /\ UNCHANGED <<dbVars, fileVars, fetchLog, chatLog, buildVars, cur, securityResult, skillInvocationLog,
                 logMark, execResult, errorMessage, urlIndex, lastError, nCalls>>

\* the handler's promise settles; its locals are gone, the audit log stays
Return ==
  /\ pc = "done"
  /\ pc' = "idle"
  /\ cur' = NoTool
  /\ securityResult' = NoSecurityResult
  /\ events' = <<>>
  /\ execResult' = "none"
  /\ errorMessage' = "none"
  /\ ret' = NoReturn
  /\ urlIndex' = 1
  /\ lastError' = "null"
  /\ logMark' = Len(skillInvocationLog)
  /\ UNCHANGED <<dbVars, fileVars, fetchLog, chatLog, buildVars, skillInvocationLog, nCalls>>

\* ------------------------------------------------------------------------
\* Initial states
\* ------------------------------------------------------------------------
NameAB == <<"a", " ", "b">>
NameA_B == <<"a", "_", "b">>
NameX == <<"x">>
NameY == <<"y">>
NameHelper == <<"h", "e", "l", "p", "e", "r">>
NameCoder == <<"c", "o", "d", "e", "r">>

SkillDoc(name, type, config, status, approved) ==
  [name |-> name, skillType |-> type, config |-> config,
   status |-> status, approved |-> approved]

ServerDoc(hasUrl, live, post, get, body, toolsAt, tools) ==
  [hasUrl |-> hasUrl, enabled |-> live, approved |-> live, post |-> post,
   get |-> get, body |-> body, toolsAt |-> toolsAt, tools |-> tools]

\* an entry of a tools/list answer, with or without a name
Listed(name) == [named |-> TRUE, name |-> name]
Nameless == [named |-> FALSE, name |-> <<>>]

\* a document of the agents table with the model settings given
AgentDocWithModel(exists, name, status, isDefault, provider, model) ==
  [exists |-> exists, name |-> name, status |-> status, isDefault |-> isDefault,
   modelProvider |-> provider, model |-> model,
   fallbackProvider |-> "anthropic", fallbackModel |-> "sonnet"]

AgentDoc(exists, name, status, isDefault) ==
  AgentDocWithModel(exists, name, status, isDefault, "openai", "gpt")

\* the agentConfig document
ConfigDoc(provider, model) ==
  [modelProvider |-> provider, model |-> model,
   fallbackProvider |-> "anthropic", fallbackModel |-> "sonnet"]

\* no upload URL has been generated; the clock starts at 0
NoUploadRet == [op |-> "none", token |-> 0, result |-> "none", deleted |-> {}]

InitFileState ==
  /\ fileUploads = << >>
  /\ now = 0
  /\ issued = 0
  /\ markedWith = {}
  /\ uploadRet = NoUploadRet

\* no chat turn, no model switch, no web_fetch and no upload has happened
InitChatState ==
  /\ agentConfig = ConfigDoc("anthropic", "sonnet")
  /\ activityLog = <<>>
  /\ chatLog = <<>>
  /\ fetchLog = <<>>
  /\ InitFileState

InitCall ==
  /\ agent = NoAgentBuilt
  /\ requested = NoAgent
  /\ loaded = NotLoaded
  /\ pc = "idle"
  /\ cur = NoTool
  /\ securityResult = NoSecurityResult
  /\ events = <<>>
  /\ skillInvocationLog = <<>>
  /\ logMark = 0
  /\ execResult = "none"
  /\ errorMessage = "none"
  /\ ret = NoReturn
  /\ urlIndex = 1
  /\ lastError = "null"
  /\ nCalls = 0

\* skill handlers: the skills' types and stored configs vary
HandlerSkillDocs(name) ==
  {SkillDoc(name, "template", "absent", "active", TRUE),
   SkillDoc(name, "code", "absent", "active", TRUE)}
  \cup {SkillDoc(name, "webhook", c, "active", TRUE) : c \in Configs \ {"absent"}}

Init ==
  /\ \E d1 \in HandlerSkillDocs(NameAB) :
     \E d2 \in {SkillDoc(NameX, "code", "absent", "active", TRUE),
                SkillDoc(NameX, "webhook", "valid", "active", TRUE)} :
       skillRegistry = (1 :> d1) @@ (2 :> d2)
  /\ mcpServers =
       (1 :> ServerDoc(TRUE, TRUE, "ok", "ok", "json", "result", <<Listed(NameY)>>))
       @@ (2 :> ServerDoc(TRUE, TRUE, "throw", "ok", "sse", "top", <<Listed(NameA_B)>>))
  /\ agents = (1 :> AgentDoc(TRUE, NameHelper, "active", TRUE))
              @@ (2 :> AgentDoc(TRUE, NameCoder, "active", FALSE))
  /\ agentSkillIds = (1 :> {1, 2}) @@ (2 :> {2})
  /\ agentMcpIds = (1 :> {1}) @@ (2 :> {})
  /\ InitCall
  /\ InitChatState

Next ==
  \/ \E a \in {NoAgent} \cup AgentIds : LoadToolsCall(a)
  \/ \E key \in DOMAIN loaded.tools : Invoke(key)
  \/ ParseConfig
  \/ CheckSecurity
  \/ Execute
  \/ LogInvocation
  \/ McpAttempt
  \/ BuiltinRun
  \/ AgentToolRun
  \/ Return

Spec == Init /\ [][Next]_vars

\* tool loading: names, approval and discovery vary
LoadSkillDocs ==
  {SkillDoc(n, "template", "absent", "active", TRUE) : n \in {NameAB, NameA_B, NameWebFetch}}
  \cup {SkillDoc(NameX, "code", "absent", "active", TRUE),
        SkillDoc(NameX, "webhook", "valid", "pending", FALSE),
        SkillDoc(NameX, "code", "absent", "inactive", TRUE)}

LoadServerDocs ==
  {ServerDoc(TRUE, TRUE, "ok", "ok", "json", "result", <<Listed(NameA_B), Listed(NameY)>>),
   ServerDoc(TRUE, TRUE, "throw", "ok", "sse", "top", <<Listed(NameAB)>>),
   ServerDoc(FALSE, TRUE, "ok", "ok", "json", "result", <<Listed(NameY)>>),
   ServerDoc(TRUE, FALSE, "ok", "ok", "json", "result", <<Listed(NameY)>>),
   ServerDoc(TRUE, TRUE, "status", "ok", "json", "result", <<Listed(NameY)>>),
   ServerDoc(TRUE, TRUE, "ok", "ok", "other", "result", <<Listed(NameY)>>),
   ServerDoc(TRUE, TRUE, "ok", "ok", "json", "top", <<Listed(NameX), Nameless, Listed(NameY)>>)}

InitLoad ==
  /\ skillRegistry \in [SkillIds -> LoadSkillDocs]
  /\ mcpServers \in [ServerIds -> LoadServerDocs]
  /\ agents = (1 :> AgentDoc(TRUE, NameHelper, "active", TRUE))
              @@ (2 :> AgentDoc(TRUE, NameCoder, "active", FALSE))
  /\ agentSkillIds = (1 :> {1, 2}) @@ (2 :> {2})
  /\ agentMcpIds = (1 :> {1}) @@ (2 :> {1, 2})
  /\ InitCall
  /\ InitChatState

NextLoad == \E a \in {NoAgent} \cup AgentIds : LoadToolsCall(a)

SpecLoad == InitLoad /\ [][NextLoad]_vars

\* scoping: the assignments vary
InitScope ==
  /\ skillRegistry \in [SkillIds -> {SkillDoc(NameAB, "template", "absent", "active", TRUE),
                                     SkillDoc(NameX, "code", "absent", "active", TRUE)}]
  /\ mcpServers =
       (1 :> ServerDoc(TRUE, TRUE, "ok", "ok", "json", "result", <<Listed(NameA_B), Listed(NameY)>>))
       @@ (2 :> ServerDoc(TRUE, TRUE, "throw", "ok", "sse", "top", <<Listed(NameAB)>>))
  /\ agents = (1 :> AgentDoc(TRUE, NameHelper, "active", TRUE))
              @@ (2 :> AgentDoc(TRUE, NameCoder, "active", FALSE))
  /\ agentSkillIds \in [AgentIds -> SUBSET SkillIds]
  /\ agentMcpIds \in [AgentIds -> SUBSET ServerIds]
  /\ InitCall
  /\ InitChatState

NextScope == \E a \in {NoAgent} \cup AgentIds : LoadToolsCall(a)

SpecScope == InitScope /\ [][NextScope]_vars

\* agent construction: the agent records and the assignments vary
InitAgent ==
  /\ skillRegistry = (1 :> SkillDoc(NameAB, "template", "absent", "active", TRUE))
                     @@ (2 :> SkillDoc(NameX, "code", "absent", "active", TRUE))
  /\ mcpServers =
       (1 :> ServerDoc(TRUE, TRUE, "ok", "ok", "json", "result", <<Listed(NameY)>>))
       @@ (2 :> ServerDoc(TRUE, TRUE, "throw", "ok", "sse", "top", <<Listed(NameA_B)>>))
  /\ \E e1 \in BOOLEAN, d1 \in BOOLEAN, e2 \in BOOLEAN, d2 \in BOOLEAN :
     \E s2 \in {"active", "error"} :
       agents = (1 :> AgentDoc(e1, NameHelper, "active", d1))
                @@ (2 :> AgentDoc(e2, NameCoder, s2, d2))
  /\ agentSkillIds \in [AgentIds -> SUBSET SkillIds]
  /\ agentMcpIds \in [AgentIds -> SUBSET ServerIds]
  /\ InitCall
  /\ InitChatState

NextAgent == \E a \in {NoAgent} \cup AgentIds : CreateDynamicAgent(a)

SpecAgent == InitAgent /\ [][NextAgent]_vars

\* ------------------------------------------------------------------------
\* Properties
\* ------------------------------------------------------------------------
Occurs(e) == \E i \in 1..Len(events) : events[i] = e
OccursBefore(e, i) == \E j \in 1..(i - 1) : events[j] = e
SkillCall == cur.kind = "skill"
Finished == pc = "done"
Denied == securityResult.code # "none" /\ ~securityResult.allowed
NewRecords == Len(skillInvocationLog) - logMark
LastRecord == skillInvocationLog[Len(skillInvocationLog)]

\* C1: in a skill tool handler the executor runs only after checkSecurity
\* has been called in the same call and has answered allowed; after a
\* denial the executor is not invoked.
C1_SecurityBeforeExecutor ==
  SkillCall =>
    \A i \in 1..Len(events) :
      events[i] = "execute" =>
        securityResult.allowed /\ OccursBefore("checkSecurity", i)

C1_Witness ==
  /\ Finished /\ SkillCall /\ Denied
  /\ skillRegistry[cur.id].skillType = "webhook"
  /\ Occurs("checkSecurity") /\ ~Occurs("execute")

C3_EveryCallLogged ==
  (Finished /\ SkillCall) => NewRecords >= 1

\* C4: no call of a tool handler writes more than one audit record,
\* whether it was denied, executed, threw, or the audit write after a
\* successful execution was rejected and the catch block ran.
C4_AtMostOneRecord == NewRecords <= 1

C4_Witness ==
  /\ Finished /\ SkillCall
  /\ execResult = "ok"
  /\ Occurs("logInvocation rejected") /\ Occurs("logInvocation")
  /\ NewRecords = 1

\* C5 (as claimed): for an allowed skill call the audit record is written
\* after the executor has finished, and its success flag is true exactly
\* when the executor returned without throwing.
C5_SuccessFlagIsExecutorOutcome ==
  (Finished /\ SkillCall /\ securityResult.allowed /\ NewRecords >= 1) =>
    /\ LastRecord.success = (execResult = "ok")
    /\ \A i \in 1..Len(events) :
         events[i] = "logInvocation" => OccursBefore("execute", i)

\* C6 (as claimed): every tool of the tool set returned by loadTools, MCP
\* proxy, built-in and agent-to-agent tools included, passes the security
\* checker before it executes.
C6_AllToolsSecurityChecked ==
  \A i \in 1..Len(events) :
    events[i] \in {"execute", "bare", "tools/call"} =>
      OccursBefore("checkSecurity", i)

\* C7 (as claimed): every finished call of an MCP proxy tool or of a
\* built-in tool has written a record to the skill invocation audit log.
C7_McpAndBuiltinLogged ==
  (Finished /\ cur.kind \in {"mcp", "builtin"}) => NewRecords >= 1

\* C8: loadTools with an agentId returns skill tools only of skills assigned
\* to that agent and MCP tools only of servers assigned to that agent; with
\* no assignments it returns neither.
C8_ScopedToAssignments ==
  (loaded.called /\ loaded.agentId # NoAgent) =>
    \A k \in DOMAIN loaded.tools :
      /\ loaded.tools[k].kind = "skill" =>
           loaded.tools[k].id \in agentSkillIds[loaded.agentId]
      /\ loaded.tools[k].kind = "mcp" =>
           loaded.tools[k].id \in agentMcpIds[loaded.agentId]

C8_Witness ==
  /\ loaded.called /\ loaded.agentId # NoAgent
  /\ \E k \in DOMAIN loaded.tools : loaded.tools[k].kind = "skill"
  /\ \E k \in DOMAIN loaded.tools : loaded.tools[k].kind = "mcp"
  /\ agentSkillIds[loaded.agentId] # SkillIds
  /\ agentMcpIds[loaded.agentId] # ServerIds

\* the entries a server's discovery yields
Discovered(sid) ==
  LET srv == mcpServers[sid]
      resp == DiscoveryResponse(srv)
      found == DiscoveryTools(srv)
  IN IF srv.hasUrl /\ ~resp.threw /\ resp.ok /\ found.parsed
       THEN found.tools ELSE <<>>

\* C9 (as claimed): loadTools without agentId returns every active approved
\* skill and every tool discovered on an enabled approved MCP server, under
\* its sanitized name, as a tool that executes that skill or MCP tool.
C9_EverythingLoaded ==
  (loaded.called /\ loaded.agentId = NoAgent) =>
    /\ \A i \in 1..Len(GetActiveApproved) :
         LET sid == GetActiveApproved[i]
             key == SanitizeName(skillRegistry[sid].name)
         IN key \in DOMAIN loaded.tools /\ loaded.tools[key] = SkillTool(sid)
    /\ \A i \in 1..Len(GetEnabledApproved) :
         LET sid == GetEnabledApproved[i]
         IN \A j \in 1..Len(Discovered(sid)) :
              LET key == SanitizeName(Discovered(sid)[j].name)
              IN Discovered(sid)[j].named =>
                   /\ key \in DOMAIN loaded.tools
                   /\ loaded.tools[key] = McpTool(sid, Discovered(sid)[j].name)

\* the entries of a server's answer that precede its first nameless entry
NamedPrefix(sid) ==
  LET listed == Discovered(sid)
      bad == {j \in 1..Len(listed) : ~listed[j].named}
      n == IF bad = {} THEN Len(listed)
           ELSE (CHOOSE j \in bad : \A k \in bad : j <= k) - 1
  IN SubSeq(listed, 1, n)

RECURSIVE McpRegistrations(_)
McpRegistrations(ids) ==
  IF ids = <<>> THEN <<>>
  ELSE [j \in 1..Len(NamedPrefix(Head(ids))) |->
          [key |-> SanitizeName(NamedPrefix(Head(ids))[j].name),
           tool |-> McpTool(Head(ids), NamedPrefix(Head(ids))[j].name)]]
       \o McpRegistrations(Tail(ids))

\* what an unscoped loadTools registers, in order: the skills, the MCP
\* tools, the built-in tools
SkillAndMcpRegistrations ==
  [i \in 1..Len(GetActiveApproved) |->
     [key |-> SanitizeName(skillRegistry[GetActiveApproved[i]].name),
      tool |-> SkillTool(GetActiveApproved[i])]]
  \o McpRegistrations(GetEnabledApproved)

Registrations ==
  SkillAndMcpRegistrations
  \o [i \in 1..Len(BuiltinNames) |->
        [key |-> BuiltinNames[i], tool |-> BuiltinTool(BuiltinNames[i])]]

\* C9 (amended): loadTools without agentId has the sanitized name of every
\* active approved skill and of every discovered MCP tool that precedes the
\* first nameless entry of its server's list as a key, and the key is bound
\* to that skill or MCP tool unless an entry registered later (a later
\* skill, an MCP tool, a later MCP tool or a built-in tool) has the same
\* sanitized name.
C9_LoadedUnlessOverwritten ==
  (loaded.called /\ loaded.agentId = NoAgent) =>
    \A i \in 1..Len(SkillAndMcpRegistrations) :
      /\ Registrations[i].key \in DOMAIN loaded.tools
      /\ (\A j \in (i + 1)..Len(Registrations) :
            Registrations[j].key # Registrations[i].key)
           => loaded.tools[Registrations[i].key] = Registrations[i].tool

C9_Witness ==
  /\ loaded.called /\ loaded.agentId = NoAgent
  /\ \E i \in 1..Len(GetActiveApproved) :
       /\ loaded.tools[SanitizeName(skillRegistry[GetActiveApproved[i]].name)].kind = "mcp"
       /\ \E j \in 1..Len(GetActiveApproved) :
            loaded.tools[SanitizeName(skillRegistry[GetActiveApproved[j]].name)]
              = SkillTool(GetActiveApproved[j])
  /\ \E s \in ServerIds : Len(NamedPrefix(s)) > 0

\* C10 (as claimed): an agent built by createDynamicAgent for an agentId
\* carries only skill tools and MCP tools assigned to that agentId, also
\* when no record exists for the agentId.
C10_AgentScopedToRequested ==
  (agent.source # "none" /\ requested # NoAgent) =>
    \A k \in DOMAIN agent.tools :
      /\ agent.tools[k].kind = "skill" =>
           agent.tools[k].id \in GetAgentSkillIds(requested)
      /\ agent.tools[k].kind = "mcp" =>
           agent.tools[k].id \in GetAgentMcpIds(requested)

\* ------------------------------------------------------------------------
\* Name sanitization: the name of one skill, MCP tool or peer agent varies
\* ------------------------------------------------------------------------
MaxNameLen == 3

\* a letter, the two separators and a character outside the class
NameChars == {"a", "_", "-", " "}

RECURSIVE NamesUpTo(_)
NamesUpTo(n) ==
  IF n = 0 THEN {<<>>}
  ELSE LET shorter == NamesUpTo(n - 1)
       IN shorter \cup {Append(s, c) : s \in shorter, c \in NameChars}

\* one character short of the limit of the slice
LongPrefix == [i \in 1..(NameLimit - 1) |-> "a"]

\* short names, the empty name among them, and names around the limit
InputNames ==
  LET short == NamesUpTo(MaxNameLen)
  IN short \cup {LongPrefix \o s : s \in short}

NamedEntries == {"skill", "mcp", "peer"}

InitNames ==
  /\ \E n \in InputNames, e \in NamedEntries :
       /\ skillRegistry =
            (1 :> SkillDoc(IF e = "skill" THEN n ELSE NameX,
                           "template", "absent", "active", TRUE))
            @@ (2 :> SkillDoc(NameHelper, "code", "absent", "active", TRUE))
       /\ mcpServers =
            (1 :> ServerDoc(TRUE, TRUE, "ok", "ok", "json", "result",
                            <<Listed(IF e = "mcp" THEN n ELSE NameY)>>))
            @@ (2 :> ServerDoc(TRUE, TRUE, "throw", "ok", "sse", "top",
                               <<Listed(NameCoder)>>))
       /\ agents =
            (1 :> AgentDoc(TRUE, NameHelper, "active", TRUE))
            @@ (2 :> AgentDoc(TRUE, IF e = "peer" THEN n ELSE NameCoder,
                              "active", FALSE))
  /\ agentSkillIds = (1 :> {1, 2}) @@ (2 :> {2})
  /\ agentMcpIds = (1 :> {1, 2}) @@ (2 :> {})
  /\ InitCall
  /\ InitChatState

NextNames == \E a \in {NoAgent, 1} : LoadToolsCall(a)

SpecNames == InitNames /\ [][NextNames]_vars

\* ------------------------------------------------------------------------
\* Name conflicts: skills, MCP tools, built-in tools and peer-agent tools
\* whose sanitized names coincide
\* ------------------------------------------------------------------------
NameAskCoder == AskAgentPrefix \o NameCoder

ConflictSkillNames == {NameAB, NameWebFetch, NameAskCoder, NameX}

ConflictToolLists ==
  {<<Listed(NameA_B)>>, <<Listed(NameWebFetch)>>, <<Listed(NameAskCoder)>>,
   <<Listed(NameY)>>, <<Listed(NameA_B), Listed(NameAB)>>,
   <<Nameless, Listed(NameA_B)>>}

InitConflict ==
  /\ \E n \in ConflictSkillNames :
       skillRegistry =
         (1 :> SkillDoc(n, "template", "absent", "active", TRUE))
         @@ (2 :> SkillDoc(NameX, "code", "absent", "active", TRUE))
  /\ \E l1 \in ConflictToolLists, l2 \in ConflictToolLists :
       mcpServers =
         (1 :> ServerDoc(TRUE, TRUE, "ok", "ok", "json", "result", l1))
         @@ (2 :> ServerDoc(TRUE, TRUE, "throw", "ok", "sse", "top", l2))
  /\ agents = (1 :> AgentDoc(TRUE, NameHelper, "active", TRUE))
              @@ (2 :> AgentDoc(TRUE, NameCoder, "active", FALSE))
  /\ agentSkillIds = (1 :> {1, 2}) @@ (2 :> {2})
  /\ agentMcpIds = (1 :> {1, 2}) @@ (2 :> {1})
  /\ InitCall
  /\ InitChatState

NextConflict == \E a \in {NoAgent} \cup AgentIds : LoadToolsCall(a)

SpecConflict == InitConflict /\ [][NextConflict]_vars

\* ------------------------------------------------------------------------
\* MCP discovery: the answers of the servers vary
\* ------------------------------------------------------------------------
\* what a fetch can do: resolve with an OK status, resolve with another
\* status, throw
FetchOutcomes == {"ok", "status", "throw"}

\* the body of an answer: JSON, an event stream whose data line holds JSON,
\* an event stream whose data line does not hold JSON, anything else
BodyKinds == {"json", "sse", "sse_invalid", "other"}

\* where the answer lists the tools: data.result.tools, data.tools, nowhere
ToolsPlaces == {"result", "top", "none"}

DiscoveryServerDocs ==
  {ServerDoc(TRUE, TRUE, p, g, b, t, <<Listed(NameX)>>) :
     p \in FetchOutcomes, g \in FetchOutcomes, b \in BodyKinds, t \in ToolsPlaces}

InitDiscovery ==
  /\ skillRegistry =
       (1 :> SkillDoc(NameAB, "template", "absent", "active", TRUE))
       @@ (2 :> SkillDoc(NameHelper, "code", "absent", "active", TRUE))
  /\ \E d1 \in DiscoveryServerDocs :
     \E d2 \in {ServerDoc(TRUE, TRUE, "ok", "ok", "json", "result", <<Listed(NameY)>>),
                ServerDoc(TRUE, TRUE, "status", "ok", "json", "result", <<Listed(NameY)>>),
                ServerDoc(TRUE, TRUE, "throw", "ok", "sse", "top", <<Listed(NameY)>>)} :
       mcpServers = (1 :> d1) @@ (2 :> d2)
  /\ agents = (1 :> AgentDoc(TRUE, NameHelper, "active", TRUE))
              @@ (2 :> AgentDoc(TRUE, NameCoder, "active", FALSE))
  /\ agentSkillIds = (1 :> {1, 2}) @@ (2 :> {2})
  /\ agentMcpIds = (1 :> {1, 2}) @@ (2 :> {1})
  /\ InitCall
  /\ InitChatState

NextDiscovery == \E a \in {NoAgent} \cup AgentIds : LoadToolsCall(a)

SpecDiscovery == InitDiscovery /\ [][NextDiscovery]_vars

\* ------------------------------------------------------------------------
\* Chat turns (chat.send) and model switching (switchModel)
\* ------------------------------------------------------------------------
MaxChatOps == 2

\* const maxLength = 4000
MaxMessageLength == 4000

\* message lengths at and around the limit
MessageLengths == {1, MaxMessageLength, MaxMessageLength + 1}

\* the provider and model arguments of switch_model
SwitchProviders == {"openai", "openrouter", "bogus"}
SwitchModels == {"sonnet"}

\* the threadId argument of chat.send: absent, or an existing thread
ThreadArgs == {"none", "t1"}

\* an entry of chatLog: what the operation returned, the model that
\* generated the reply or that was asked for, the source of the turn's
\* agent, the generation path, the threadId argument and the threadId
\* returned, what the handler called in order, and the tool set handed to
\* the model
ChatEntry(op, kind, model, source, path, asked, threadId, steps, tools) ==
  [op |-> op, kind |-> kind, model |-> model, source |-> source, path |-> path,
   asked |-> asked, threadId |-> threadId, steps |-> steps, tools |-> tools]

\* the calls of the rate limiter made before a denial of the given kind
LimiterSteps(kind) ==
  IF kind = "rate_limited" THEN <<"limit publicChat">>
  ELSE <<"limit publicChat", "limit globalMessages">>

\* a faulty early return that records the denied message in the activity log
SendRejectedLogging(kind, asked) ==
  /\ chatLog' = Append(chatLog,
                       ChatEntry("send", kind, NoModel, "none", "none", asked,
                                 asked, LimiterSteps(kind), EmptyToolSet))
  /\ activityLog' = Append(activityLog, "chat_message")
  /\ UNCHANGED <<registryVars, fileVars, fetchLog, agentConfig, buildVars, callVars>>

\* chat.send returns { error, threadId: args.threadId } before the try block
SendRejected(kind, asked) ==
  /\ chatLog' = Append(chatLog,
                       ChatEntry("send", kind, NoModel, "none", "none", asked,
                                 asked, LimiterSteps(kind), EmptyToolSet))
  /\ UNCHANGED <<dbVars, fileVars, fetchLog, buildVars, callVars>>

\* what the try block calls up to the generation
TurnSteps(asked, vision) ==
  <<"limit publicChat", "limit globalMessages", "resolveModel",
    "createDynamicAgent",
    IF asked = "none" THEN "createThread" ELSE "continueThread",
    "getConfig", "loadTools",
    IF vision THEN "aiGenerateText" ELSE "thread.generateText">>

\* a faulty choice of tools that leaves the agent's own tool set in place
HandedToolsOfAgent(vision, built, unscoped) ==
  IF vision THEN EmptyToolSet ELSE built.tools

\* the tools of the generation call: none on the direct vision path,
\* otherwise ...(hasTools && { tools }) with tools = loadTools(ctx), which
\* replaces the tool set of the agent; the agent's own when that is empty
HandedTools(vision, built, unscoped) ==
  IF vision THEN EmptyToolSet
  ELSE IF DOMAIN unscoped # {} THEN unscoped
  ELSE built.tools

\* a faulty log write that records the turn even when the generation threw
TurnLogAlways(log, generated, logged) == Append(log, "chat_message")

\* await ctx.runMutation(internal.activityLog.log, ...) after the
\* generation: reached only if the generation returned, and the mutation
\* commits or rejects
TurnLog(log, generated, logged) ==
  IF generated /\ logged THEN Append(log, "chat_message") ELSE log

\* the try block of chat.send: resolveModel, createDynamicAgent(ctx), the
\* thread, loadTools(ctx), then aiGenerateText with the resolved model for
\* images on a vision model, thread.generateText of the agent otherwise,
\* then the activity log entry; the catch block returns args.threadId
SendTurn(asked, vision, generated, logged) ==
  /\ agent' = CreateDynamicAgentResult(NoAgent)
  /\ requested' = NoAgent
  /\ loaded' = [called |-> TRUE, agentId |-> NoAgent] @@ LoadState(NoAgent)
  /\ activityLog' = TurnLog(activityLog, generated, logged)
  /\ chatLog' =
       Append(chatLog,
              ChatEntry("send",
                        IF generated /\ logged THEN "answered" ELSE "failed",
                        IF ~generated THEN NoModel
                        ELSE IF vision THEN ResolveModel
                        ELSE agent'.model,
                        agent'.source,
                        IF vision THEN "vision" ELSE "agent",
                        asked,
                        IF generated /\ logged
                          THEN (IF asked = "none" THEN "new" ELSE asked)
                          ELSE asked,
                        TurnSteps(asked, vision)
                          \o (IF generated THEN <<"activityLog.log">> ELSE <<>>),
                        HandedTools(vision, agent', loaded'.tools)))
  /\ UNCHANGED <<registryVars, fileVars, fetchLog, agentConfig, callVars>>

\* chat.send
ChatSend(sessionOk, globalOk, length, asked, vision, generated, logged) ==
  /\ Idle
  /\ Len(chatLog) < MaxChatOps
  /\ IF ~sessionOk THEN SendRejected("rate_limited", asked)
     ELSE IF ~globalOk THEN SendRejected("busy", asked)
     ELSE IF length > MaxMessageLength
       THEN /\ chatLog' = Append(chatLog,
                                 ChatEntry("send", "too_long", NoModel, "none",
                                           "none", asked, asked,
                                           LimiterSteps("busy"), EmptyToolSet))
            /\ UNCHANGED <<dbVars, fileVars, fetchLog, buildVars, callVars>>
     ELSE SendTurn(asked, vision, generated, logged)

\* a faulty provider test that accepts every provider
ProviderValidAlways(provider) == TRUE

\* providers.find(p => p.id === args.provider)
ProviderValid(provider) == provider \in AvailableProviders

\* the entry of a switchModel call
SwitchEntry(kind, asked) ==
  ChatEntry("switch", kind, asked, "none", "none", "none", "none", <<>>,
            EmptyToolSet)

\* switchModel: the provider test, agentConfig.update, activityLog.log;
\* a rejected mutation is caught and reported as a failure
SwitchModel(provider, model, updated, logged) ==
  /\ Idle
  /\ Len(chatLog) < MaxChatOps
  /\ LET asked == [provider |-> provider, model |-> model]
     IN IF ~ProviderValid(provider)
          THEN /\ chatLog' = Append(chatLog, SwitchEntry("invalid_provider", asked))
               /\ UNCHANGED <<agentConfig, activityLog>>
        ELSE IF ~updated
          THEN /\ chatLog' = Append(chatLog, SwitchEntry("failed", asked))
               /\ UNCHANGED <<agentConfig, activityLog>>
        ELSE /\ agentConfig' = [agentConfig EXCEPT !.model = model,
                                                   !.modelProvider = provider]
             /\ activityLog' = IF logged THEN Append(activityLog, "model_switch")
                               ELSE activityLog
             /\ chatLog' = Append(chatLog,
                                  SwitchEntry(IF logged THEN "switched" ELSE "failed",
                                              asked))
  /\ UNCHANGED <<registryVars, fileVars, fetchLog, buildVars, callVars>>

\* the agents table is empty, or holds agents with or without a default
InitChat ==
  /\ skillRegistry =
       (1 :> SkillDoc(NameAB, "template", "absent", "active", TRUE))
       @@ (2 :> SkillDoc(NameX, "code", "absent", "active", TRUE))
  /\ mcpServers =
       (1 :> ServerDoc(TRUE, TRUE, "ok", "ok", "json", "result", <<Listed(NameY)>>))
       @@ (2 :> ServerDoc(TRUE, TRUE, "throw", "ok", "sse", "top", <<Listed(NameA_B)>>))
  /\ \E e1 \in BOOLEAN, d1 \in BOOLEAN :
       agents = (1 :> AgentDoc(e1, NameHelper, "active", d1))
                @@ (2 :> AgentDoc(e1, NameCoder, "active", FALSE))
  /\ agentSkillIds = (1 :> {1}) @@ (2 :> {2})
  /\ agentMcpIds = (1 :> {1}) @@ (2 :> {})
  /\ InitCall
  /\ InitChatState

NextChat ==
  \/ \E s \in BOOLEAN, g \in BOOLEAN, n \in MessageLengths, a \in ThreadArgs,
        v \in BOOLEAN, t \in BOOLEAN, l \in BOOLEAN :
       ChatSend(s, g, n, a, v, t, l)
  \/ \E p \in SwitchProviders, m \in SwitchModels, u \in BOOLEAN, l \in BOOLEAN :
       SwitchModel(p, m, u, l)

SpecChat == InitChat /\ [][NextChat]_vars

\* ------------------------------------------------------------------------
\* web_fetch: the handler of createWebFetchTool.  A text is represented
\* by its length (text.length, in UTF-16 units).
\* ------------------------------------------------------------------------
MaxFetches == 2

MAX_RESPONSE_SIZE == 100 * 1024

\* '\n...[truncated: response exceeds 100KB]'
TruncationMarker ==
  <<"\n", ".", ".", ".", "[", "t", "r", "u", "n", "c", "a", "t", "e", "d", ":",
    " ", "r", "e", "s", "p", "o", "n", "s", "e", " ", "e", "x", "c", "e", "e",
    "d", "s", " ", "1", "0", "0", "K", "B", "]">>

\* text.slice(0, end).length
SliceLength(length, end) == Min(length, end)

\* truncatedText.length
TruncatedTextLength(length) ==
  IF length > MAX_RESPONSE_SIZE
    THEN SliceLength(length, MAX_RESPONSE_SIZE) + Len(TruncationMarker)
    ELSE length

UrlKinds == {"http", "https", "ftp", "invalid"}
FetchEnds == {"ok", "status", "timeout", "redirect", "error"}
ResponseSizes == {0, 1, MAX_RESPONSE_SIZE - 1, MAX_RESPONSE_SIZE,
                  MAX_RESPONSE_SIZE + 1, 2 * MAX_RESPONSE_SIZE}

\* a return without a body
FetchFailure(error) ==
  [success |-> FALSE, error |-> error, hasBody |-> FALSE, bodyLength |-> 0,
   size |-> 0, truncated |-> FALSE, hasData |-> FALSE]

\* what the handler returns: urlKind is what new URL(url) gives, end is how
\* fetch ended, length is response.text().length, json says that the
\* content type is application/json, parses that the text is valid JSON
WebFetchResult(urlKind, end, length, json, parses) ==
  IF urlKind = "invalid" THEN FetchFailure("Invalid URL")
  ELSE IF urlKind \notin {"http", "https"} THEN FetchFailure("Invalid protocol")
  ELSE IF end = "timeout" THEN FetchFailure("Request timeout")
  ELSE IF end = "redirect" THEN FetchFailure("Redirect blocked")
  ELSE IF end = "error" THEN FetchFailure("fetch failed")
  ELSE [success |-> end = "ok",
        error |-> IF end = "ok" THEN "none" ELSE "HTTP status",
        hasBody |-> TRUE,
        bodyLength |-> TruncatedTextLength(length),
        size |-> length,
        truncated |-> length > MAX_RESPONSE_SIZE,
        hasData |-> json /\ parses /\ TruncatedTextLength(length) = length]

WebFetch(urlKind, end, length, json, parses) ==
  /\ Len(fetchLog) < MaxFetches
  /\ fetchLog' = Append(fetchLog, WebFetchResult(urlKind, end, length, json, parses))
  /\ UNCHANGED <<dbVars, fileVars, chatLog, buildVars, callVars>>

InitFetch ==
  /\ skillRegistry = (1 :> SkillDoc(NameX, "code", "absent", "active", TRUE))
  /\ mcpServers =
       (1 :> ServerDoc(TRUE, TRUE, "ok", "ok", "json", "result", <<Listed(NameY)>>))
  /\ agents = (1 :> AgentDoc(FALSE, NameHelper, "active", FALSE))
  /\ agentSkillIds = (1 :> {})
  /\ agentMcpIds = (1 :> {})
  /\ InitCall
  /\ InitChatState

NextFetch ==
  \E u \in UrlKinds, e \in FetchEnds, n \in ResponseSizes,
     j \in BOOLEAN, p \in BOOLEAN :
    WebFetch(u, e, n, j, p)

SpecFetch == InitFetch /\ [][NextFetch]_vars

\* ------------------------------------------------------------------------
\* File uploads (fileUploads.ts).  Each mutation is one transaction.
\* ------------------------------------------------------------------------
MaxUploads == 2
MaxTicks == 2

OneHour == 60 * 60 * 1000

NoStorage == "none"
StorageIds == {"s1"}

\* the tokens a caller can pass: the issued ones and one nobody was given
TokenArgs == 1..(MaxUploads + 1)

\* the document generateUploadUrl inserts
PendingDoc(token, at) ==
  [uploadToken |-> token, uploadedAt |-> at, status |-> "pending",
   storageId |-> NoStorage]

\* the table without the documents of the tokens in gone
Without(table, gone) == [t \in DOMAIN table \ gone |-> table[t]]

UploadRet(op, token, result, deleted) ==
  [op |-> op, token |-> token, result |-> result, deleted |-> deleted]

\* the storage hands out a new token with every upload URL
GenerateUploadUrl ==
  /\ issued < MaxUploads
  /\ issued' = issued + 1
  /\ fileUploads' = (issued' :> PendingDoc(issued', now)) @@ fileUploads
  /\ uploadRet' = UploadRet("generateUploadUrl", issued', "url", {})
  /\ UNCHANGED <<now, markedWith>>

MarkComplete(token, storageId) ==
  /\ fileUploads' =
       IF token \in DOMAIN fileUploads
         THEN [fileUploads EXCEPT
                 ![token] = [@ EXCEPT !.status = "complete",
                                      !.storageId = IF storageId # NoStorage
                                                      THEN storageId ELSE @]]
         ELSE fileUploads
  /\ markedWith' = IF storageId # NoStorage THEN markedWith \cup {token}
                                            ELSE markedWith
  /\ uploadRet' = UploadRet("markComplete", token, "none", {})
  /\ UNCHANGED <<now, issued>>

FileUrlOfComplete(table, token, stored) ==
  IF token \notin DOMAIN table \/ table[token].status # "complete"
    THEN "null"
    ELSE IF stored THEN "url" ELSE "null"

\* what getFileUrlByToken returns; stored says that storage.getUrl finds
\* the file
FileUrl(table, token, stored) ==
  IF token \notin DOMAIN table \/ table[token].storageId = NoStorage
    THEN "null"
    ELSE IF stored THEN "url" ELSE "null"

GetFileUrlByToken(token, stored) ==
  /\ uploadRet' = UploadRet("getFileUrlByToken", token,
                            FileUrl(fileUploads, token, stored), {})
  /\ UNCHANGED <<fileUploads, now, issued, markedWith>>

\* the first document of index by_storage with this storageId
FirstByStorage(table, storageId) ==
  LET found == {t \in DOMAIN table : table[t].storageId = storageId}
  IN  {t \in found : \A u \in found : t <= u}

Remove(storageId) ==
  /\ fileUploads' = Without(fileUploads, FirstByStorage(fileUploads, storageId))
  /\ uploadRet' = UploadRet("remove", 0, "none",
                            FirstByStorage(fileUploads, storageId))
  /\ UNCHANGED <<now, issued, markedWith>>

StaleUploads(table, time) ==
  {t \in DOMAIN table : table[t].uploadedAt < time - OneHour}

\* pendingFiles of cleanupPending (the table holds fewer than 100 documents)
StalePendingUploads(table, time) ==
  {t \in DOMAIN table : /\ table[t].status = "pending"
                        /\ table[t].uploadedAt < time - OneHour}

CleanupPending ==
  /\ fileUploads' = Without(fileUploads, StalePendingUploads(fileUploads, now))
  /\ uploadRet' = UploadRet("cleanupPending", 0,
                            Cardinality(StalePendingUploads(fileUploads, now)),
                            StalePendingUploads(fileUploads, now))
  /\ UNCHANGED <<now, issued, markedWith>>

\* time passes: a millisecond or an hour
TickSteps == {1, OneHour}

Tick(d) ==
  /\ (now \div OneHour) + (now % OneHour) < MaxTicks
  /\ now' = now + d
  /\ UNCHANGED <<fileUploads, issued, markedWith, uploadRet>>

InitUploads == InitFetch

NextUploads ==
  \/ /\ \/ GenerateUploadUrl
        \/ \E t \in TokenArgs, s \in StorageIds \cup {NoStorage} : MarkComplete(t, s)
        \/ \E t \in TokenArgs, f \in BOOLEAN : GetFileUrlByToken(t, f)
        \/ \E s \in StorageIds : Remove(s)
        \/ CleanupPending
        \/ \E d \in TickSteps : Tick(d)
     /\ UNCHANGED <<dbVars, fetchLog, chatLog, buildVars, callVars>>

SpecUploads == InitUploads /\ [][NextUploads]_vars

\* ------------------------------------------------------------------------
\* Sanitized names (C11 - C13)
\* ------------------------------------------------------------------------
\* the keys under which skills and MCP tools are registered
SanitizedKeys ==
  {k \in DOMAIN loaded.tools : loaded.tools[k].kind \in {"skill", "mcp"}}

OnlyNameChars(k) ==
  \A i \in 1..Len(k) :
    k[i] \in LowerChars \cup UpperChars \cup DigitChars \cup {"_", "-"}

HasInvalidChar(s) == \E i \in 1..Len(s) : ~IsNameChar(s[i])

Repeats(k, c) == \E i \in 1..(Len(k) - 1) : k[i] = c /\ k[i + 1] = c

\* the names given to the skills and MCP tools that loadTools registered
RegisteredInputNames ==
  {skillRegistry[loaded.tools[k].id].name :
     k \in {j \in DOMAIN loaded.tools : loaded.tools[j].kind = "skill"}}
  \cup {loaded.tools[k].name :
          k \in {j \in DOMAIN loaded.tools : loaded.tools[j].kind = "mcp"}}

\* C11: the sanitized name of every skill and of every MCP tool consists of
\* ASCII letters, digits, underscore and hyphen only and has at most 128
\* characters, whatever the input name is
C11_SanitizedNamesWellFormed ==
  \A k \in SanitizedKeys : OnlyNameChars(k) /\ Len(k) <= 128

\* a name longer than the limit with a character outside the class was
\* registered under a key of exactly 128 characters
C11_Witness ==
  /\ loaded.called
  /\ \E n \in RegisteredInputNames :
       /\ Len(n) > 128
       /\ HasInvalidChar(n)
       /\ SanitizeName(n) \in SanitizedKeys
       /\ Len(SanitizeName(n)) = 128

\* C12 as stated: in the sanitized name of a skill or MCP tool neither an
\* underscore nor a hyphen is immediately followed by the same character
C12_NoRepeatedSeparator ==
  \A k \in SanitizedKeys : ~Repeats(k, "_") /\ ~Repeats(k, "-")

\* C12 amended: no underscore of a sanitized name is immediately followed
\* by an underscore
C12_NoRepeatedUnderscore ==
  \A k \in SanitizedKeys : ~Repeats(k, "_")

\* a name with a run of underscores and invalid characters was registered
C12_Witness ==
  /\ loaded.called
  /\ \E n \in RegisteredInputNames :
       /\ Repeats(ReplaceInvalid(n), "_")
       /\ HasInvalidChar(n)
       /\ SanitizeName(n) \in SanitizedKeys

\* C13: every key of the tool set returned by loadTools matches
\* ^[a-zA-Z0-9_-]{1,128}$, in particular no key is the empty string
C13_KeysMatchPattern ==
  \A k \in DOMAIN loaded.tools :
    OnlyNameChars(k) /\ 1 <= Len(k) /\ Len(k) <= 128

\* ------------------------------------------------------------------------
\* Conflicts between skills and MCP tools (C14)
\* ------------------------------------------------------------------------
\* the skills for which the loadTools call recorded in loaded made a tool
LoadedSkillIds ==
  {GetActiveApproved[i] : i \in 1..Len(GetActiveApproved)}
  \cap {sid \in SkillIds :
          /\ IsAllowed(loaded.agentId, GetAgentSkillIds(loaded.agentId), sid)
          /\ CreatesTool(skillRegistry[sid])}

\* the servers whose tools that call registered
LoadedServerIds ==
  {GetEnabledApproved[i] : i \in 1..Len(GetEnabledApproved)}
  \cap {sid \in ServerIds :
          IsAllowed(loaded.agentId, GetAgentMcpIds(loaded.agentId), sid)}

\* the keys under which both a skill and an MCP tool were registered
SharedKeys ==
  {SanitizeName(skillRegistry[sid].name) : sid \in LoadedSkillIds}
  \cap UNION {{SanitizeName(NamedPrefix(srv)[j].name) :
                 j \in 1..Len(NamedPrefix(srv))} : srv \in LoadedServerIds}

ConflictLogged(k) == \E i \in 1..Len(loaded.conflicts) : loaded.conflicts[i] = k

\* the keys that loadTools assigns after the MCP tools
LaterKeys ==
  BuiltinNameSet
  \cup {k \in DOMAIN loaded.tools : loaded.tools[k].kind = "agent"}

\* C14 as stated: when a skill and an MCP tool have the same sanitized
\* name, the returned tool set maps that name to the MCP tool and the
\* conflict was logged when the MCP tool was registered
C14_McpToolWins ==
  loaded.called =>
    \A k \in SharedKeys :
      /\ k \in DOMAIN loaded.tools
      /\ loaded.tools[k].kind = "mcp"
      /\ ConflictLogged(k)

\* C14 amended: the conflict was logged, and the name is mapped to an MCP
\* tool of that sanitized name unless it is also the name of a built-in
\* tool or of a peer-agent tool, which are registered later
C14_McpToolWinsUnlessLater ==
  loaded.called =>
    \A k \in SharedKeys :
      /\ k \in DOMAIN loaded.tools
      /\ ConflictLogged(k)
      /\ k \notin LaterKeys =>
           /\ loaded.tools[k].kind = "mcp"
           /\ SanitizeName(loaded.tools[k].name) = k

\* a skill and an MCP tool with different names share a sanitized name,
\* the MCP tool holds the key and the conflict is in the log
C14_Witness ==
  /\ loaded.called
  /\ \E k \in SharedKeys \ LaterKeys :
       /\ loaded.tools[k].kind = "mcp"
       /\ ConflictLogged(k)
       /\ \E sid \in LoadedSkillIds :
            /\ SanitizeName(skillRegistry[sid].name) = k
            /\ skillRegistry[sid].name # loaded.tools[k].name

\* ------------------------------------------------------------------------
\* MCP discovery (C15, C16)
\* ------------------------------------------------------------------------
\* the discovery requests sent to a server, in order
RequestsTo(sid) == SelectSeq(loaded.requests, LAMBDA r : r.server = sid)

\* the servers that the loadTools call recorded in loaded contacted
ContactedServerIds == {sid \in LoadedServerIds : mcpServers[sid].hasUrl}

\* the MCP tools of a server in the returned tool set
ToolsFrom(sid) ==
  {loaded.tools[k] :
     k \in {j \in DOMAIN loaded.tools :
              loaded.tools[j].kind = "mcp" /\ loaded.tools[j].id = sid}}

\* C15: for each server the JSON-RPC 2.0 tools/list POST is sent first, a
\* plain GET follows exactly when that POST threw, and a POST answered
\* with a non-OK status is followed by no GET and yields no tools
C15_PostFirstGetOnThrow ==
  loaded.called =>
    \A sid \in ContactedServerIds :
      LET sent == RequestsTo(sid)
      IN /\ Len(sent) \in {1, 2}
         /\ sent[1].method = "POST" /\ sent[1].rpc = "tools/list"
         /\ Len(sent) = 2 <=>
              mcpServers[sid].post = "throw"
         /\ Len(sent) = 2 => sent[2].method = "GET" /\ sent[2].rpc = "none"
         /\ mcpServers[sid].post = "status" =>
              Len(sent) = 1 /\ ToolsFrom(sid) = {}

\* one server's POST threw and its GET brought tools, another's POST was
\* answered with a non-OK status although its GET would have succeeded
C15_Witness ==
  /\ loaded.called
  /\ \E sid \in ContactedServerIds :
       /\ mcpServers[sid].post = "throw"
       /\ Len(RequestsTo(sid)) = 2
       /\ ToolsFrom(sid) # {}
  /\ \E sid \in ContactedServerIds :
       /\ mcpServers[sid].post = "status"
       /\ mcpServers[sid].get = "ok"
       /\ Len(RequestsTo(sid)) = 1

\* the server's answer arrived with an OK status
AnsweredOk(sid) ==
  \/ mcpServers[sid].post = "ok"
  \/ mcpServers[sid].post = "throw" /\ mcpServers[sid].get = "ok"

\* the tools that the answer of a server lists at a place the client reads
ListedTools(sid) ==
  IF mcpServers[sid].toolsAt \in {"result", "top"}
    THEN {McpTool(sid, mcpServers[sid].tools[j].name) :
            j \in {i \in 1..Len(mcpServers[sid].tools) :
                     mcpServers[sid].tools[i].named}}
    ELSE {}

\* C16: an OK answer whose body is JSON, or is not JSON but has a data line
\* holding JSON, yields the tools it lists; any other body yields no tools
C16_EitherEncodingAccepted ==
  loaded.called =>
    \A sid \in ContactedServerIds :
      AnsweredOk(sid) =>
        IF mcpServers[sid].body \in {"json", "sse"}
          THEN ToolsFrom(sid) = ListedTools(sid)
          ELSE ToolsFrom(sid) = {}

\* one server answered in JSON and another as an event stream, and the
\* tools of both are in the tool set
C16_Witness ==
  /\ loaded.called
  /\ \E s1 \in ContactedServerIds, s2 \in ContactedServerIds :
       /\ AnsweredOk(s1) /\ mcpServers[s1].body = "json"
       /\ AnsweredOk(s2) /\ mcpServers[s2].body = "sse"
       /\ ToolsFrom(s1) # {}
       /\ ToolsFrom(s2) # {}

\* ------------------------------------------------------------------------
\* MCP tool calls (C17)
\* ------------------------------------------------------------------------
McpCallDone == pc = "done" /\ cur.kind = "mcp"

\* C17: an MCP tool call returns an error only after the bare server URL
\* and then the URL with the /tools/call suffix were tried and both
\* attempts failed, and the error is that of the second attempt
C17_ErrorAfterBothEndpoints ==
  (McpCallDone /\ ret.kind = "error") =>
    /\ Len(events) = 4
    /\ events[1] = "bare"
    /\ events[2] # "answered"
    /\ events[3] = "tools/call"
    /\ events[4] # "answered"
    /\ ret.detail = events[4]

\* both attempts failed, each in its own way
C17_Witness ==
  /\ McpCallDone
  /\ ret.kind = "error"
  /\ Len(events) = 4
  /\ events[2] # events[4]

\* ------------------------------------------------------------------------
\* Resolution order of createDynamicAgent (C18)
\* ------------------------------------------------------------------------
\* the default agents of the agents table
DefaultAgentIds == {a \in AgentIds : agents[a].exists /\ agents[a].isDefault}

SuppliedRecordExists == requested # NoAgent /\ agents[requested].exists

\* C18: createDynamicAgent builds from the record of the supplied agentId
\* if it exists, otherwise from a default agent of the agents table if one
\* exists, otherwise from the legacy agentConfig model with the unscoped
\* tool set
C18_FixedResolutionOrder ==
  agent.source # "none" =>
    IF SuppliedRecordExists
      THEN agent.source = "agents" /\ agent.id = requested
    ELSE IF DefaultAgentIds # {}
      THEN agent.source = "agents" /\ agent.id \in DefaultAgentIds
    ELSE /\ agent.source = "legacy"
         /\ agent.model = [provider |-> agentConfig.modelProvider,
                           model |-> agentConfig.model]
         /\ agent.tools = LoadTools(NoAgent)

\* an agentId was supplied whose record exists while another agent is the
\* default, and the agent was built from the supplied record
C18_Witness ==
  /\ agent.source = "agents"
  /\ SuppliedRecordExists
  /\ DefaultAgentIds # {}
  /\ requested \notin DefaultAgentIds
  /\ agent.id = requested

\* ------------------------------------------------------------------------
\* list_tools (C19)
\* ------------------------------------------------------------------------
ListToolsDone ==
  pc = "done" /\ cur.kind = "builtin" /\ cur.name = NameListTools

\* C19: the names that list_tools reports are the names of the tool set
\* that loadTools assembled for the turn
C19_ListToolsReportsToolSet ==
  ListToolsDone => ret.tools = DOMAIN loaded.tools

\* ------------------------------------------------------------------------
\* Model switching (C20)
\* ------------------------------------------------------------------------
Switched(i) == chatLog[i].op = "switch" /\ chatLog[i].kind = "switched"

Replied(j) == chatLog[j].op = "send" /\ chatLog[j].model # NoModel

\* the first chat message answered after operation i
NextReply(i, j) ==
  /\ i < j
  /\ Replied(j)
  /\ \A k \in (i + 1)..(j - 1) : ~Replied(k)

\* C20: the first chat message answered after a successful switch_model,
\* with no other call of switch_model in between, is answered by the model
\* and provider of that switch, whatever the source of the turn's agent
C20_NextMessageUsesSwitchedModel ==
  \A i \in 1..Len(chatLog), j \in 1..Len(chatLog) :
    (/\ Switched(i)
     /\ NextReply(i, j)
     /\ \A k \in (i + 1)..(j - 1) : chatLog[k].op # "switch")
      => chatLog[j].model = chatLog[i].model

\* ------------------------------------------------------------------------
\* chat.send: rate limiting and the activity log (C21, C22)
\* ------------------------------------------------------------------------
\* what the step appended to chatLog
NewEntry == chatLog'[Len(chatLog')]

\* the step is a call of chat.send that returned an entry of these kinds
SendReturned(kinds) ==
  /\ Len(chatLog') = Len(chatLog) + 1
  /\ NewEntry.op = "send"
  /\ NewEntry.kind \in kinds

\* C21: a chat.send denied by the per-session or by the global limiter
\* returns the caller's threadId after calling nothing but the limiters:
\* no agent and no thread is made, no model and no tool is called, no
\* activity log record is written
C21_DeniedSendDoesNothing ==
  [][SendReturned({"rate_limited", "busy"}) =>
       /\ NewEntry.threadId = NewEntry.asked
       /\ NewEntry.model = NoModel
       /\ \A i \in 1..Len(NewEntry.steps) :
            NewEntry.steps[i] \in {"limit publicChat", "limit globalMessages"}
       /\ UNCHANGED <<dbVars, buildVars, callVars>>]_vars

\* the global limiter denied a message for an existing thread, after an
\* earlier message had been answered
C21_Witness ==
  \E i \in 2..Len(chatLog) :
    /\ chatLog[i].op = "send" /\ chatLog[i].kind = "busy"
    /\ chatLog[i].asked = "t1"
    /\ chatLog[i - 1].kind = "answered"
    /\ activityLog = <<"chat_message">>

\* C22: a chat.send that returns a response has written exactly one
\* activityLog record of type chat_message, on the agent path and on the
\* vision path alike, and a chat.send that returns an error has written none
C22_OneRecordPerAnsweredTurn ==
  [][/\ SendReturned({"answered"}) =>
          activityLog' = Append(activityLog, "chat_message")
     /\ SendReturned({"rate_limited", "busy", "too_long", "failed"}) =>
          activityLog' = activityLog]_vars

\* one message was answered on the vision path and one on the agent path,
\* and the log holds one record for each
C22_Witness ==
  /\ \E i \in 1..Len(chatLog), j \in 1..Len(chatLog) :
       /\ chatLog[i].kind = "answered" /\ chatLog[i].path = "vision"
       /\ chatLog[j].kind = "answered" /\ chatLog[j].path = "agent"
  /\ activityLog = <<"chat_message", "chat_message">>

\* ------------------------------------------------------------------------
\* C23: the body field of every result web_fetch returns is at most
\* 100 * 1024 characters long
\* ------------------------------------------------------------------------
C23_BodyAtMost100KB ==
  \A i \in 1..Len(fetchLog) :
    fetchLog[i].hasBody => fetchLog[i].bodyLength <= 100 * 1024

\* ------------------------------------------------------------------------
\* C24: a run of cleanupPending deletes only documents that are pending
\* and were uploaded more than one hour before the run; a document that
\* markComplete completed survives every run
\* ------------------------------------------------------------------------
DeletedByStep == DOMAIN fileUploads \ DOMAIN fileUploads'

C24_CleanupDeletesOnlyStalePending ==
  [][uploadRet'.op = "cleanupPending" =>
       /\ \A t \in DeletedByStep :
            /\ fileUploads[t].status = "pending"
            /\ now - fileUploads[t].uploadedAt > OneHour
       /\ \A t \in DOMAIN fileUploads :
            fileUploads[t].status = "complete" => t \in DOMAIN fileUploads']_vars

\* a run deleted a stale pending document and kept a stale completed one
C24_Witness ==
  /\ uploadRet.op = "cleanupPending"
  /\ uploadRet.deleted # {}
  /\ \E t \in DOMAIN fileUploads :
       /\ fileUploads[t].status = "complete"
       /\ now - fileUploads[t].uploadedAt > OneHour

\* ------------------------------------------------------------------------
\* C30: getFileUrlByToken returns null for a token as long as markComplete
\* has not been called for that token with a storageId
\* ------------------------------------------------------------------------
C30_NullBeforeMarkComplete ==
  (uploadRet.op = "getFileUrlByToken" /\ uploadRet.token \notin markedWith)
    => uploadRet.result = "null"

\* null for a document completed without a storageId, after another
\* token's document got its storageId
C30_Witness ==
  /\ uploadRet.op = "getFileUrlByToken"
  /\ uploadRet.result = "null"
  /\ uploadRet.token \in DOMAIN fileUploads
  /\ fileUploads[uploadRet.token].status = "complete"
  /\ uploadRet.token \notin markedWith
  /\ markedWith # {}

\* ------------------------------------------------------------------------
\* C25: whatever skills, MCP servers and agentId, the tool set loadTools
\* returns holds each of these twelve built-in tools under its name, also
\* when a skill or an MCP tool has that sanitized name
\* ------------------------------------------------------------------------
AlwaysAvailable ==
  {NameListAvailableModels, NameSwitchModel, NameGetCurrentModel,
   NameGenerateImage, NameGeneratePdf, NameSendTelegramMessage, NameSendEmail,
   NamePostTweet, NameScheduleTask, NameListTools, NameWebFetch,
   NameGetCurrentDate}

C25_BuiltinsAlwaysAvailable ==
  loaded.called =>
    \A k \in AlwaysAvailable :
      /\ k \in DOMAIN loaded.tools
      /\ loaded.tools[k] = BuiltinTool(k)

\* a loaded skill and a listed MCP tool are both named web_fetch, and the
\* scoped tool set maps web_fetch to the built-in tool
C25_Witness ==
  /\ loaded.called
  /\ loaded.agentId # NoAgent
  /\ \E sid \in LoadedSkillIds : SanitizeName(skillRegistry[sid].name) = NameWebFetch
  /\ \E srv \in LoadedServerIds :
       \E j \in 1..Len(NamedPrefix(srv)) :
         SanitizeName(NamedPrefix(srv)[j].name) = NameWebFetch
  /\ loaded.tools[NameWebFetch] = BuiltinTool(NameWebFetch)

\* ------------------------------------------------------------------------
\* C26: the tool set chat.send hands to the model on the agent path is the
\* tool set of the agent createDynamicAgent built; when that is the default
\* agent, only skills and MCP servers assigned to it are callable
\* ------------------------------------------------------------------------
C26_HandedToolsAreAgentTools ==
  [][(SendReturned({"answered", "failed"}) /\ NewEntry.path = "agent") =>
       /\ NewEntry.tools = agent'.tools
       /\ agent'.source = "agents" =>
            \A k \in DOMAIN NewEntry.tools :
              /\ NewEntry.tools[k].kind = "skill" =>
                   NewEntry.tools[k].id \in agentSkillIds[agent'.id]
              /\ NewEntry.tools[k].kind = "mcp" =>
                   NewEntry.tools[k].id \in agentMcpIds[agent'.id]]_vars

\* ------------------------------------------------------------------------
\* C27: switchModel with a provider that is not among the available
\* providers returns success = false, leaves the stored model and provider
\* as they were and writes no activity log record
\* ------------------------------------------------------------------------
SwitchReturned ==
  /\ Len(chatLog') = Len(chatLog) + 1
  /\ NewEntry.op = "switch"

C27_UnknownProviderChangesNothing ==
  [][(SwitchReturned /\ NewEntry.model.provider \notin AvailableProviders) =>
       /\ NewEntry.kind # "switched"
       /\ agentConfig' = agentConfig
       /\ activityLog' = activityLog]_vars

\* an unknown provider was refused after a switch that succeeded
C27_Witness ==
  \E i \in 2..Len(chatLog) :
    /\ chatLog[i].op = "switch"
    /\ chatLog[i].model.provider \notin AvailableProviders
    /\ chatLog[i].kind = "invalid_provider"
    /\ chatLog[i - 1].op = "switch" /\ chatLog[i - 1].kind = "switched"
    /\ agentConfig.modelProvider = chatLog[i - 1].model.provider
    /\ activityLog = <<"model_switch">>

\* ------------------------------------------------------------------------
\* C28: when the discovery of an MCP server fails (both requests threw,
\* the answer has a non-OK status, or its body cannot be parsed), loadTools
\* still returns the tools of the other servers, the skill tools and all
\* built-in tools
\* ------------------------------------------------------------------------
DiscoveryFailed(sid) ==
  \/ ~AnsweredOk(sid)
  \/ mcpServers[sid].body \notin {"json", "sse"}

C28_DiscoveryFailureIsLocal ==
  loaded.called =>
    \A sid \in ContactedServerIds :
      DiscoveryFailed(sid) =>
        /\ \A other \in ContactedServerIds \ {sid} :
             ~DiscoveryFailed(other) => ToolsFrom(other) = ListedTools(other)
        /\ \A k \in LoadedSkillIds :
             /\ SanitizeName(skillRegistry[k].name) \in DOMAIN loaded.tools
             /\ loaded.tools[SanitizeName(skillRegistry[k].name)] = SkillTool(k)
        /\ \A b \in BuiltinNameSet :
             /\ b \in DOMAIN loaded.tools
             /\ loaded.tools[b] = BuiltinTool(b)

\* both requests to the first server threw, and the tools of the second
\* server, two skill tools and the built-ins are in the tool set
C28_Witness ==
  /\ loaded.called
  /\ {1, 2} \subseteq ContactedServerIds
  /\ mcpServers[1].post = "throw" /\ mcpServers[1].get = "throw"
  /\ Len(RequestsTo(1)) = 2
  /\ ~DiscoveryFailed(2)
  /\ ToolsFrom(2) # {}
  /\ Cardinality(LoadedSkillIds) = 2
  /\ NameGetCurrentDate \in DOMAIN loaded.tools

\* ------------------------------------------------------------------------
\* C29: an MCP tool call requests the bare server URL first, requests the
\* URL with the /tools/call suffix only after the bare attempt failed,
\* requests nothing after an endpoint answered, and requests no endpoint
\* twice
\* ------------------------------------------------------------------------
McpCallRunning == cur.kind = "mcp" /\ pc \in {"mcp", "done"}

\* the endpoints requested so far and what came of each attempt
Requested == [i \in 1..(Len(events) \div 2) |-> events[2 * i - 1]]
Outcome == [i \in 1..(Len(events) \div 2) |-> events[2 * i]]

====
